---------------------------- MODULE Spec2Model ----------------------------
(***************************************************************************)
(* Verification model of the vaiu-voice-agent booking backend.             *)
(*                                                                         *)
(*   routes/bookings.js       the mounted booking router                   *)
(*   services/weatherService.js   the weather lookup and seating policy    *)
(*   index.js                 parseBookingDateTime (natural date resolver) *)
(*                                                                         *)
(* JavaScript strings are modelled as sequences of one-character strings,  *)
(* so that trimming, lower-casing, regex replacement, splitting and        *)
(* substring search are computed the way the code computes them.           *)
(* Probabilities are modelled in hundredths (0.2 is 20, 0.4 is 40).        *)
(***************************************************************************)
EXTENDS Integers, Sequences, FiniteSets, TLC

VARIABLES
    \* ---- number decoding (wordsToNumber and the handler's guest count) ----
    npc,        \* "input" | "decoded"
    nPhrase,    \* the phrase as drawn: [words, sep, caps]
    nText,      \* the string handed to the code (sequence of characters)
    nDecoded,   \* wordsToNumber(nText)
    nGuests     \* the handler's numberOfGuests for raw.numberOfGuests = nText

VARIABLES
    \* ---- weather decision (summarizeSuggestion and the service's suggestion) ----
    wpc,        \* "input" | "decided"
    wEntry,     \* the forecast entry drawn: [main, pop, fav, unfav]
    wService,   \* what getWeatherForDate derives from the entry
    wSummary,   \* summarizeSuggestion(entry.main, entry.pop)
    wSeating,   \* the handler's seatingPreference for that summary
    wCompact    \* the handler's weatherInfo and seatingPreference for what the service derives

VARIABLES
    \* ---- date resolution (parseBookingDateTime, lines 100-122) ----
    dpc,        \* "input" | "resolved"
    today,      \* the reference day, moment().startOf("day"): [y, m, d]
    dateStr,    \* the date string drawn: [shape, y, m, d]
    dOut        \* Null, or [parsed, inferred, resolved]: parsedDate after line 115,
                \* after line 120 and after line 122

VARIABLES
    \* ---- the booking router (routes/bookings.js) ----
    env,        \* [hasWeatherService, hasApiKey]: the module loaded, the key set
    pc,         \* per request: "idle" | "awaitWeather" | "done"
    req,        \* per request: the request received
    loc,        \* per request: the handler's normalised fields
    fetch,      \* per request: the axios call: "none" | "inflight" | its outcome
    resp,       \* per request: the response sent
    store       \* the Booking collection: the set of saved records

VARIABLES
    \* ---- time resolution and composition (parseBookingDateTime, lines 81-95, 124-146) ----
    tpc,        \* "input" | "composed"
    timeStr,    \* the time string drawn (sequence of characters)
    tDate,      \* the resolved date the time is combined with: [y, m, d]
    tLenient,   \* what the forgiving parse of line 131 makes of a string no format matches
    tOut        \* Null, or what parseBookingDateTime returns

VARIABLES
    \* ---- the choice of the forecast entry (getWeatherForDate, lines 9-25) ----
    fpc,        \* "input" | "chosen"
    fZone,      \* the UTC offset of the server's local time, in minutes
    fBooking,   \* the booking's calendar date: [y, m, d]
    fDaily,     \* res.data.daily: the sequence of the entries' dt, in minutes since the epoch
    fChosen     \* Null, or the index of closest in fDaily

VARIABLES
    \* ---- the routes on one record (status, cancel, get, delete) ----
    cLast       \* the last operation on the collection and its response

nvars == <<npc, nPhrase, nText, nDecoded, nGuests>>
wvars == <<wpc, wEntry, wService, wSummary, wSeating, wCompact>>
dvars == <<dpc, today, dateStr, dOut>>
bvars == <<env, pc, req, loc, fetch, resp, store>>
tvars == <<tpc, timeStr, tDate, tLenient, tOut>>
fvars == <<fpc, fZone, fBooking, fDaily, fChosen>>
cvars == <<cLast>>
xvars == <<tvars, fvars, cvars>>
vars == <<nvars, wvars, dvars, bvars, xvars>>

\* A variable that holds no value yet
Undefined == "undefined"
\* The JavaScript values null and undefined, where an object is expected
Null == [null |-> TRUE]
\* A JavaScript number, or undefined where a number is expected
Num(k) == [defined |-> TRUE, n |-> k]
NoNumber == [defined |-> FALSE, n |-> 0]
\* !x of a number or undefined
Falsy(x) == ~x.defined \/ x.n = 0

-----------------------------------------------------------------------------
\* Characters and strings

UpperAlpha == <<"A","B","C","D","E","F","G","H","I","J","K","L","M",
                "N","O","P","Q","R","S","T","U","V","W","X","Y","Z">>
LowerAlpha == <<"a","b","c","d","e","f","g","h","i","j","k","l","m",
                "n","o","p","q","r","s","t","u","v","w","x","y","z">>
DigitChars == <<"0","1","2","3","4","5","6","7","8","9">>

IsUpper(c) == \E i \in 1..26 : UpperAlpha[i] = c
IsLower(c) == \E i \in 1..26 : LowerAlpha[i] = c
IsDigit(c) == \E i \in 1..10 : DigitChars[i] = c
DigitVal(c) == (CHOOSE i \in 1..10 : DigitChars[i] = c) - 1
\* \s of a JavaScript regular expression (the characters the model uses)
IsSpace(c) == c = " "
\* \w of a JavaScript regular expression
IsWordChar(c) == IsUpper(c) \/ IsLower(c) \/ IsDigit(c) \/ c = "_"

ToLowerChar(c) == IF IsUpper(c) THEN LowerAlpha[CHOOSE i \in 1..26 : UpperAlpha[i] = c] ELSE c
ToUpperChar(c) == IF IsLower(c) THEN UpperAlpha[CHOOSE i \in 1..26 : LowerAlpha[i] = c] ELSE c

\* String.prototype.toLowerCase
ToLowerCase(s) == [i \in 1..Len(s) |-> ToLowerChar(s[i])]
ToUpperCase(s) == [i \in 1..Len(s) |-> ToUpperChar(s[i])]

\* String.prototype.trim
RECURSIVE TrimLeft(_)
TrimLeft(s) == IF s # <<>> /\ IsSpace(Head(s)) THEN TrimLeft(Tail(s)) ELSE s
RECURSIVE TrimRight(_)
TrimRight(s) == IF s # <<>> /\ IsSpace(s[Len(s)]) THEN TrimRight(SubSeq(s, 1, Len(s) - 1)) ELSE s
Trim(s) == TrimRight(TrimLeft(s))

\* String.prototype.includes
Includes(s, sub) == \E i \in 1..(Len(s) - Len(sub) + 1) : SubSeq(s, i, i + Len(sub) - 1) = sub

\* s.replace(/[-,]/g, " ")
ReplaceHyphenComma(s) == [i \in 1..Len(s) |-> IF s[i] \in {"-", ","} THEN " " ELSE s[i]]

\* /\band\b/ matches at position i of s
AndWord == <<"a", "n", "d">>
AndAt(s, i) ==
    /\ i + 2 <= Len(s)
    /\ SubSeq(s, i, i + 2) = AndWord
    /\ (i = 1 \/ ~IsWordChar(s[i - 1]))
    /\ (i + 3 > Len(s) \/ ~IsWordChar(s[i + 3]))

\* s.replace(/\band\b/g, " "), scanning from position i
RECURSIVE ReplaceAndFrom(_, _)
ReplaceAndFrom(s, i) ==
    IF i > Len(s) THEN <<>>
    ELSE IF AndAt(s, i) THEN <<" ">> \o ReplaceAndFrom(s, i + 3)
    ELSE <<s[i]>> \o ReplaceAndFrom(s, i + 1)
ReplaceAnd(s) == ReplaceAndFrom(s, 1)

\* s.split(/\s+/).filter(Boolean): the maximal runs of non-space characters
RECURSIVE SplitFrom(_, _, _)
SplitFrom(s, i, cur) ==
    IF i > Len(s) THEN (IF cur = <<>> THEN <<>> ELSE <<cur>>)
    ELSE IF IsSpace(s[i]) THEN (IF cur = <<>> THEN <<>> ELSE <<cur>>) \o SplitFrom(s, i + 1, <<>>)
    ELSE SplitFrom(s, i + 1, Append(cur, s[i]))
SplitSpaces(s) == SplitFrom(s, 1, <<>>)

\* The length of the run of digits of s that starts at position i
RECURSIVE DigitRun(_, _)
DigitRun(s, i) == IF i <= Len(s) /\ IsDigit(s[i]) THEN 1 + DigitRun(s, i + 1) ELSE 0

\* The decimal value of a sequence of digits
RECURSIVE DecimalValue(_)
DecimalValue(ds) == IF ds = <<>> THEN 0 ELSE 10 * DecimalValue(SubSeq(ds, 1, Len(ds) - 1)) + DigitVal(ds[Len(ds)])

\* parseInt(p, 10): optional white space, optional sign, then the leading digits;
\* NaN when there is none
ParseIntStart(p) ==
    LET t == TrimLeft(p)
    IN  IF t # <<>> /\ Head(t) \in {"+", "-"} THEN <<Tail(t), IF Head(t) = "-" THEN -1 ELSE 1>> ELSE <<t, 1>>
ParseIntIsNaN(p) == DigitRun(ParseIntStart(p)[1], 1) = 0
ParseInt(p) ==
    LET st == ParseIntStart(p)
    IN  st[2] * DecimalValue(SubSeq(st[1], 1, DigitRun(st[1], 1)))

\* s.match(/\d+/): the first maximal run of digits, or <<>> when s has no digit
FirstDigitRun(s) ==
    IF \E i \in 1..Len(s) : IsDigit(s[i])
    THEN LET i == CHOOSE k \in 1..Len(s) : IsDigit(s[k]) /\ \A j \in 1..(k - 1) : ~IsDigit(s[j])
         IN  SubSeq(s, i, i + DigitRun(s, i) - 1)
    ELSE <<>>

-----------------------------------------------------------------------------
\* routes/bookings.js: wordsToNumber

\* the keys of `small`, in the order of their values 0..19
SmallWords == <<
    <<"z","e","r","o">>,
    <<"o","n","e">>,
    <<"t","w","o">>,
    <<"t","h","r","e","e">>,
    <<"f","o","u","r">>,
    <<"f","i","v","e">>,
    <<"s","i","x">>,
    <<"s","e","v","e","n">>,
    <<"e","i","g","h","t">>,
    <<"n","i","n","e">>,
    <<"t","e","n">>,
    <<"e","l","e","v","e","n">>,
    <<"t","w","e","l","v","e">>,
    <<"t","h","i","r","t","e","e","n">>,
    <<"f","o","u","r","t","e","e","n">>,
    <<"f","i","f","t","e","e","n">>,
    <<"s","i","x","t","e","e","n">>,
    <<"s","e","v","e","n","t","e","e","n">>,
    <<"e","i","g","h","t","e","e","n">>,
    <<"n","i","n","e","t","e","e","n">> >>
\* the keys of `tens`, in the order of their values 20, 30, ..., 90
TensWords == <<
    <<"t","w","e","n","t","y">>,
    <<"t","h","i","r","t","y">>,
    <<"f","o","r","t","y">>,
    <<"f","i","f","t","y">>,
    <<"s","i","x","t","y">>,
    <<"s","e","v","e","n","t","y">>,
    <<"e","i","g","h","t","y">>,
    <<"n","i","n","e","t","y">> >>
HundredWord == <<"h","u","n","d","r","e","d">>
ThousandWord == <<"t","h","o","u","s","a","n","d">>

InSmall(p) == \E i \in 1..Len(SmallWords) : SmallWords[i] = p
SmallOf(p) == (CHOOSE i \in 1..Len(SmallWords) : SmallWords[i] = p) - 1
InTens(p) == \E i \in 1..Len(TensWords) : TensWords[i] = p
TensOf(p) == ((CHOOSE i \in 1..Len(TensWords) : TensWords[i] = p) + 1) * 10

\* s = (s || "").toString().toLowerCase().replace(/[-,]/g, " ").replace(/\band\b/g, " ")
NormalizeWords(s) == ReplaceAnd(ReplaceHyphenComma(ToLowerCase(s)))

\* one pass of the loop body, on the accumulators acc = [total, cur]
WordStepThousandKeeps(acc, p) ==
    IF InSmall(p) THEN [acc EXCEPT !.cur = @ + SmallOf(p)]
    ELSE IF InTens(p) THEN [acc EXCEPT !.cur = @ + TensOf(p)]
    ELSE IF p = HundredWord THEN [acc EXCEPT !.cur = @ * 100]
    ELSE IF p = ThousandWord THEN [total |-> acc.total + acc.cur * 1000, cur |-> acc.cur * 1000]
    ELSE IF ~ParseIntIsNaN(p) THEN [acc EXCEPT !.cur = @ + ParseInt(p)]
    ELSE acc
WordStep(acc, p) ==
    IF InSmall(p) THEN [acc EXCEPT !.cur = @ + SmallOf(p)]
    ELSE IF InTens(p) THEN [acc EXCEPT !.cur = @ + TensOf(p)]
    ELSE IF p = HundredWord THEN [acc EXCEPT !.cur = @ * 100]
    ELSE IF p = ThousandWord THEN [total |-> acc.total + acc.cur * 1000, cur |-> 0]
    ELSE IF ~ParseIntIsNaN(p) THEN [acc EXCEPT !.cur = @ + ParseInt(p)]
    ELSE acc

RECURSIVE WordLoop(_, _)
WordLoop(acc, parts) == IF parts = <<>> THEN acc ELSE WordLoop(WordStep(acc, Head(parts)), Tail(parts))

wordsToNumber(s) ==
    LET parts == SplitSpaces(NormalizeWords(s))
        acc == WordLoop([total |-> 0, cur |-> 0], parts)
    IN  acc.total + acc.cur

-----------------------------------------------------------------------------
\* routes/bookings.js: normalisation of the request fields

\* asString, on a string
asString(x) == Trim(x)

\* numberOfGuests of router.post("/"): raw is [t |-> "number", n |-> ...] when
\* typeof raw.numberOfGuests is "number", else [t |-> "string", s |-> ...] with s the
\* value of raw.numberOfGuests || raw.guests || raw.number || ""
numberOfGuestsAlwaysDecodes(raw) ==
    IF raw.t = "number" THEN Num(raw.n)
    ELSE LET wn == wordsToNumber(asString(raw.s))
         IN  IF wn # 0 THEN Num(wn) ELSE NoNumber
numberOfGuestsKeepsZero(raw) ==
    IF raw.t = "number" THEN Num(raw.n)
    ELSE LET s == asString(raw.s)
             m == FirstDigitRun(s)
         IN  IF m # <<>> THEN Num(ParseInt(m)) ELSE Num(wordsToNumber(s))
numberOfGuests(raw) ==
    IF raw.t = "number" THEN Num(raw.n)
    ELSE LET s == asString(raw.s)
             m == FirstDigitRun(s)
         IN  IF m # <<>> THEN Num(ParseInt(m))
             ELSE LET wn == wordsToNumber(s)
                  IN  IF wn # 0 THEN Num(wn) ELSE NoNumber

-----------------------------------------------------------------------------
\* Number phrases: the inputs of the number-decoding specification

\* the longest phrase drawn, in words
MaxWords == 4

\* the words phrases are built from: spelling w, grammatical kind k, the number v an
\* English reader gives the word, and the number n written in digits inside the
\* word (-1 when the word has no digit)
Lexicon == {
    [w |-> <<"o","n","e">>, k |-> "unit", v |-> 1, n |-> -1],
    [w |-> <<"t","w","o">>, k |-> "unit", v |-> 2, n |-> -1],
    [w |-> <<"t","w","e","n","t","y">>, k |-> "tens", v |-> 20, n |-> -1],
    [w |-> <<"h","u","n","d","r","e","d">>, k |-> "hundred", v |-> 100, n |-> -1],
    [w |-> <<"t","h","o","u","s","a","n","d">>, k |-> "thousand", v |-> 1000, n |-> -1],
    [w |-> <<"p","e","o","p","l","e">>, k |-> "other", v |-> 0, n |-> -1],
    [w |-> <<"2">>, k |-> "numeral", v |-> 2, n |-> 2],
    [w |-> <<"x","4">>, k |-> "other", v |-> 0, n |-> 4] }

SepStyles == {"space", "hyphen", "comma", "and", "natural"}

\* the separator written after word i of ws in the given style; "natural" writes
\* "two hundred and twenty-two"
SepAfter(ws, i, style) ==
    CASE style = "space" -> <<" ">>
      [] style = "hyphen" -> <<"-">>
      [] style = "comma" -> <<",", " ">>
      [] style = "and" -> <<" ", "a", "n", "d", " ">>
      [] style = "natural" ->
            IF ws[i].k = "hundred" THEN <<" ", "a", "n", "d", " ">>
            ELSE IF ws[i].k = "tens" /\ ws[i + 1].k = "unit" THEN <<"-">>
            ELSE <<" ">>

RECURSIVE RenderFrom(_, _, _)
RenderFrom(ws, i, style) ==
    IF i > Len(ws) THEN <<>>
    ELSE IF i = Len(ws) THEN ws[i].w
    ELSE ws[i].w \o SepAfter(ws, i, style) \o RenderFrom(ws, i + 1, style)

\* the string a phrase is spoken or typed as
Render(ph) == LET r == RenderFrom(ph.words, 1, ph.sep) IN IF ph.caps THEN ToUpperCase(r) ELSE r

\* upper-case phrases are drawn in the "space" and "natural" styles only
Phrases ==
    { ph \in UNION { [words : [1..n -> Lexicon], sep : SepStyles, caps : BOOLEAN] : n \in 0..MaxWords } :
        ph.caps => ph.sep \in {"space", "natural"} }

\* the variables of the other specifications, at rest
WeatherIdle ==
    /\ wpc = "idle"
    /\ wEntry = Undefined
    /\ wService = Undefined
    /\ wSummary = Undefined
    /\ wSeating = Undefined
    /\ wCompact = Undefined

DateIdle ==
    /\ dpc = "idle"
    /\ today = Undefined
    /\ dateStr = Undefined
    /\ dOut = Undefined

BookingIdle ==
    /\ env = Undefined
    /\ pc = Undefined
    /\ req = Undefined
    /\ loc = Undefined
    /\ fetch = Undefined
    /\ resp = Undefined
    /\ store = {}

TimeIdle ==
    /\ tpc = "idle"
    /\ timeStr = Undefined
    /\ tDate = Undefined
    /\ tLenient = Undefined
    /\ tOut = Undefined

ForecastIdle ==
    /\ fpc = "idle"
    /\ fZone = Undefined
    /\ fBooking = Undefined
    /\ fDaily = Undefined
    /\ fChosen = Undefined

RecordRoutesIdle == cLast = Undefined

RestIdle == TimeIdle /\ ForecastIdle /\ RecordRoutesIdle

NumInit ==
    /\ RestIdle
    /\ WeatherIdle
    /\ DateIdle
    /\ BookingIdle
    /\ npc = "input"
    /\ nPhrase \in Phrases
    /\ nText = Render(nPhrase)
    /\ nDecoded = Undefined
    /\ nGuests = Undefined

\* the decoder and the handler's guest-count normalisation applied to the string
Decode ==
    /\ npc = "input"
    /\ npc' = "decoded"
    /\ nDecoded' = wordsToNumber(nText)
    /\ nGuests' = numberOfGuests([t |-> "string", s |-> nText])
    /\ UNCHANGED <<nPhrase, nText>>
    /\ UNCHANGED <<wvars, dvars, bvars, xvars>>

NumNext == Decode

NumSpec == NumInit /\ [][NumNext]_vars

-----------------------------------------------------------------------------
\* The value of a well-formed English number phrase, by its grammar:
\*   below100  ::= unit | tens | tens unit
\*   below1000 ::= below100 | unit "hundred" [below100]
\*   number    ::= below1000 | below1000 "thousand" [below1000]

Below100(ws) ==
    \/ Len(ws) = 1 /\ ws[1].k \in {"unit", "tens"}
    \/ Len(ws) = 2 /\ ws[1].k = "tens" /\ ws[2].k = "unit"
ValueBelow100(ws) == IF Len(ws) = 1 THEN ws[1].v ELSE ws[1].v + ws[2].v

Below1000(ws) ==
    \/ Below100(ws)
    \/ /\ Len(ws) >= 2
       /\ ws[1].k = "unit"
       /\ ws[2].k = "hundred"
       /\ (Len(ws) = 2 \/ Below100(SubSeq(ws, 3, Len(ws))))
ValueBelow1000(ws) ==
    IF Below100(ws) THEN ValueBelow100(ws)
    ELSE ws[1].v * 100 + (IF Len(ws) = 2 THEN 0 ELSE ValueBelow100(SubSeq(ws, 3, Len(ws))))

ThousandAt(ws, k) ==
    /\ ws[k].k = "thousand"
    /\ Below1000(SubSeq(ws, 1, k - 1))
    /\ (k = Len(ws) \/ Below1000(SubSeq(ws, k + 1, Len(ws))))
WellFormed(ws) == Below1000(ws) \/ \E k \in 2..Len(ws) : ThousandAt(ws, k)
PhraseValue(ws) ==
    IF Below1000(ws) THEN ValueBelow1000(ws)
    ELSE LET k == CHOOSE j \in 2..Len(ws) : ThousandAt(ws, j)
         IN  ValueBelow1000(SubSeq(ws, 1, k - 1)) * 1000
             + (IF k = Len(ws) THEN 0 ELSE ValueBelow1000(SubSeq(ws, k + 1, Len(ws))))

\* C8: for every well-formed number phrase of unit words, tens words, "hundred" and
\* "thousand", whatever the separators (white space, hyphens, commas, "and") and the
\* letter case, wordsToNumber returns the arithmetic value of the phrase
C8_WordsToNumberValue ==
    (npc = "decoded" /\ WellFormed(nPhrase.words)) => nDecoded = PhraseValue(nPhrase.words)

\* "ONE THOUSAND TWO HUNDRED" has been decoded to 1200
C8_Witness ==
    /\ npc = "decoded"
    /\ Len(nPhrase.words) = 4
    /\ nPhrase.caps
    /\ WellFormed(nPhrase.words)
    /\ nDecoded = 1200

\* the number written by the first digits of a phrase, -1 when it has no digit
FirstNumeral(ws) ==
    IF \E i \in 1..Len(ws) : ws[i].n >= 0
    THEN ws[CHOOSE i \in 1..Len(ws) : ws[i].n >= 0 /\ \A j \in 1..(i - 1) : ws[j].n < 0].n
    ELSE -1

\* C9 as stated: when numberOfGuests arrives as a string, the guest count the handler
\* uses equals the decoder's result for that string (a decoded 0 aside), also for
\* strings that mix numerals and words
C9_GuestsEqualDecoder ==
    (npc = "decoded" /\ nDecoded # 0) => nGuests = Num(nDecoded)

\* C9 as amended: a string with a digit in it gives the integer written by its first
\* run of digits, the decoder not being consulted; a string with no digit gives the
\* decoder's result, and no guest count when that result is 0
C9_GuestsFromString ==
    npc = "decoded" =>
        IF FirstNumeral(nPhrase.words) >= 0
        THEN nGuests = Num(FirstNumeral(nPhrase.words))
        ELSE nGuests = (IF nDecoded = 0 THEN NoNumber ELSE Num(nDecoded))

\* "2 hundred" has been normalised: the decoder says 200, the handler uses 2
C9_Witness ==
    /\ npc = "decoded"
    /\ Len(nPhrase.words) = 2
    /\ nPhrase.words[1].k = "numeral"
    /\ nPhrase.words[2].k = "hundred"
    /\ nDecoded = 200
    /\ nGuests = Num(2)

-----------------------------------------------------------------------------
\* services/weatherService.js and routes/bookings.js: the weather decision

\* the thresholds 0.2 and 0.4 on the precipitation probability, in hundredths
GoodBelow == 20
BadFrom == 40

ClearWord == <<"c","l","e","a","r">>
SunWord == <<"s","u","n">>
RainWord == <<"r","a","i","n">>

\* the suggestion sentences of getWeatherForDate
SuggestPerfect == <<"P","e","r","f","e","c","t"," ","w","e","a","t","h","e","r"," ","f","o","r"," ","o","u","t","d","o","o","r"," ","d","i","n","i","n","g","!">>
SuggestRain == <<"I","t"," ","m","i","g","h","t"," ","r","a","i","n"," ","o","n"," ","t","h","e"," ","s","e","l","e","c","t","e","d"," ","d","a","t","e","."," ","I","n","d","o","o","r"," ","s","e","a","t","i","n","g"," ","w","o","u","l","d"," ","b","e"," ","b","e","t","t","e","r",".">>
SuggestModerate == <<"W","e","a","t","h","e","r"," ","l","o","o","k","s"," ","m","o","d","e","r","a","t","e","."," ","I","n","d","o","o","r"," ","s","e","a","t","i","n","g"," ","i","s"," ","s","a","f","e","r",".">>

\* getWeatherForDate, from the chosen daily entry on: condition, rainProb, the
\* suggestion and the returned object (closest is [main, pop])
ServiceObservationBadFirst(closest) ==
    LET condition == ToLowerCase(closest.main)
        rainProb == closest.pop
    IN  IF Includes(condition, RainWord) \/ rainProb >= BadFrom
        THEN [condition |-> condition, rainProbability |-> rainProb,
              suggestion |-> SuggestRain, suggestOutdoor |-> FALSE]
        ELSE IF Includes(condition, ClearWord) \/ Includes(condition, SunWord) \/ rainProb < GoodBelow
        THEN [condition |-> condition, rainProbability |-> rainProb,
              suggestion |-> SuggestPerfect, suggestOutdoor |-> TRUE]
        ELSE [condition |-> condition, rainProbability |-> rainProb,
              suggestion |-> SuggestModerate, suggestOutdoor |-> FALSE]
ServiceObservation(closest) ==
    LET condition == ToLowerCase(closest.main)
        rainProb == closest.pop
    IN  IF Includes(condition, ClearWord) \/ Includes(condition, SunWord) \/ rainProb < GoodBelow
        THEN [condition |-> condition, rainProbability |-> rainProb,
              suggestion |-> SuggestPerfect, suggestOutdoor |-> TRUE]
        ELSE IF Includes(condition, RainWord) \/ rainProb >= BadFrom
        THEN [condition |-> condition, rainProbability |-> rainProb,
              suggestion |-> SuggestRain, suggestOutdoor |-> FALSE]
        ELSE [condition |-> condition, rainProbability |-> rainProb,
              suggestion |-> SuggestModerate, suggestOutdoor |-> FALSE]

\* summarizeSuggestion (the em dash of the "bad" text is written as a hyphen)
summarizeSuggestionBadFirst(condition, rainProb) ==
    LET cond == ToLowerCase(condition)
        pop == rainProb
    IN  IF Includes(cond, RainWord) \/ pop >= BadFrom
        THEN [category |-> "bad", text |-> "Rain likely - indoor seating recommended"]
        ELSE IF Includes(cond, ClearWord) \/ Includes(cond, SunWord) \/ pop < GoodBelow
        THEN [category |-> "good", text |-> "Good for outdoor dining"]
        ELSE [category |-> "moderate", text |-> "Weather moderate - indoor recommended for safety"]
summarizeSuggestion(condition, rainProb) ==
    LET cond == ToLowerCase(condition)
        pop == rainProb
    IN  IF Includes(cond, ClearWord) \/ Includes(cond, SunWord) \/ pop < GoodBelow
        THEN [category |-> "good", text |-> "Good for outdoor dining"]
        ELSE IF Includes(cond, RainWord) \/ pop >= BadFrom
        THEN [category |-> "bad", text |-> "Rain likely - indoor seating recommended"]
        ELSE [category |-> "moderate", text |-> "Weather moderate - indoor recommended for safety"]

\* defaultGoodWeather
defaultGoodWeather == [category |-> "good", text |-> "Good for outdoor dining", note |-> "default"]

\* seatingPreference of router.post("/")
seatingPreference(compactWeather) ==
    IF compactWeather # Null /\ compactWeather.category = "good" THEN "outdoor" ELSE "indoor"

\* lines 231-244: compactWeather from what the service returned. The service
\* returns null or an observation; it neither throws nor returns an error shape
CompactWeatherUnmarkedDefault(w) ==
    IF w = Null THEN [category |-> "good", text |-> "Good for outdoor dining", note |-> "null"]
    ELSE LET summary == summarizeSuggestion(
                            IF w.condition # <<>> THEN w.condition ELSE w.suggestion,
                            w.rainProbability)
         IN  [category |-> summary.category, text |-> summary.text, note |-> "null"]
CompactWeather(w) ==
    IF w = Null THEN defaultGoodWeather
    ELSE LET summary == summarizeSuggestion(
                            IF w.condition # <<>> THEN w.condition ELSE w.suggestion,
                            w.rainProbability)
         IN  [category |-> summary.category, text |-> summary.text, note |-> "null"]

\* Forecast entries drawn for the decision: the condition text (weather[0].main), and
\* whether a reader finds "clear" or "sun" (fav) or "rain" (unfav) in it, whatever
\* the letter case
Conditions == {
    [main |-> <<>>, fav |-> FALSE, unfav |-> FALSE],
    [main |-> <<"C","l","e","a","r">>, fav |-> TRUE, unfav |-> FALSE],
    [main |-> <<"c","l","e","a","r"," ","s","k","y">>, fav |-> TRUE, unfav |-> FALSE],
    [main |-> <<"S","u","n","n","y">>, fav |-> TRUE, unfav |-> FALSE],
    [main |-> <<"R","a","i","n">>, fav |-> FALSE, unfav |-> TRUE],
    [main |-> <<"l","i","g","h","t"," ","r","a","i","n">>, fav |-> FALSE, unfav |-> TRUE],
    [main |-> <<"C","l","o","u","d","s">>, fav |-> FALSE, unfav |-> FALSE],
    [main |-> <<"D","r","i","z","z","l","e">>, fav |-> FALSE, unfav |-> FALSE],
    [main |-> <<"R","A","I","N"," ","t","h","e","n"," ","s","u","n">>, fav |-> TRUE, unfav |-> TRUE],
    [main |-> <<"T","h","u","n","d","e","r","s","t","o","r","m">>, fav |-> FALSE, unfav |-> FALSE] }
\* precipitation probabilities 0.00 .. 1.00, in hundredths
Pops == 0..100

NumIdle ==
    /\ npc = "idle"
    /\ nPhrase = Undefined
    /\ nText = Undefined
    /\ nDecoded = Undefined
    /\ nGuests = Undefined

WeatherInit ==
    /\ RestIdle
    /\ NumIdle
    /\ DateIdle
    /\ BookingIdle
    /\ wpc = "input"
    /\ \E c \in Conditions, p \in Pops : wEntry = [main |-> c.main, pop |-> p, fav |-> c.fav, unfav |-> c.unfav]
    /\ wService = Undefined
    /\ wSummary = Undefined
    /\ wSeating = Undefined
    /\ wCompact = Undefined

\* both copies of the policy applied to the entry
Decide ==
    /\ wpc = "input"
    /\ wpc' = "decided"
    /\ wService' = ServiceObservation(wEntry)
    /\ wSummary' = summarizeSuggestion(wEntry.main, wEntry.pop)
    /\ wSeating' = seatingPreference(summarizeSuggestion(wEntry.main, wEntry.pop))
    /\ wCompact' = [weatherInfo |-> CompactWeather(ServiceObservation(wEntry)),
                    seatingPreference |-> seatingPreference(CompactWeather(ServiceObservation(wEntry)))]
    /\ UNCHANGED wEntry
    /\ UNCHANGED <<nvars, dvars, bvars, xvars>>

WeatherNext == Decide

WeatherSpec == WeatherInit /\ [][WeatherNext]_vars

\* C2: the decision is taken in a fixed order, first match wins: a condition naming
\* "clear" or "sun", or a probability below 0.2, is good and seated outdoor;
\* otherwise a condition naming "rain", or a probability of 0.4 or more, is bad and
\* seated indoor; otherwise the weather is moderate and seated indoor. So "rain" below
\* 0.2 is good, and "clear" at 0.4 or more is good
C2_DecisionOrder ==
    wpc = "decided" =>
        LET good == wEntry.fav \/ wEntry.pop < 20
            bad == ~good /\ (wEntry.unfav \/ wEntry.pop >= 40)
        IN  /\ good => (wSummary.category = "good" /\ wSeating = "outdoor" /\ wService.suggestOutdoor)
            /\ bad => (wSummary.category = "bad" /\ wSeating = "indoor" /\ ~wService.suggestOutdoor)
            /\ (~good /\ ~bad) => (wSummary.category = "moderate" /\ wSeating = "indoor" /\ ~wService.suggestOutdoor)

\* C16: the two copies of the policy agree. For every observation getWeatherForDate
\* returns, the category the handler computes from it is good exactly when the
\* service's suggestOutdoor is true, and the handler's seatingPreference is outdoor
\* exactly when that category is good, indoor otherwise
C16_PolicyCopiesAgree ==
    wpc = "decided" =>
        /\ wCompact.weatherInfo.category = "good" <=> wService.suggestOutdoor
        /\ wCompact.seatingPreference = "outdoor" <=> wCompact.weatherInfo.category = "good"
        /\ wCompact.seatingPreference = "indoor" <=> wCompact.weatherInfo.category # "good"
        /\ wCompact.weatherInfo.note # "default"

\* an entry without condition text and with probability 0.45: the handler decides
\* from the service's suggestion sentence, and both say indoor
C16_Witness ==
    /\ wpc = "decided"
    /\ wEntry.main = <<>>
    /\ wEntry.pop = 45
    /\ ~wService.suggestOutdoor
    /\ wCompact.weatherInfo.category = "bad"
    /\ wCompact.seatingPreference = "indoor"

\* a rainy condition with probability 0.10 has been decided good
C2_Witness ==
    /\ wpc = "decided"
    /\ wEntry.unfav /\ ~wEntry.fav
    /\ wEntry.pop = 10
    /\ wSummary.category = "good"
    /\ wSeating = "outdoor"

-----------------------------------------------------------------------------
\* index.js: parseBookingDateTime, the date part (lines 100-122)

\* Calendar dates [y, m, d], as moment holds them
IsLeapYear(y) == (y % 4 = 0 /\ y % 100 # 0) \/ y % 400 = 0
DaysInMonth(y, m) ==
    IF m = 2 THEN (IF IsLeapYear(y) THEN 29 ELSE 28)
    ELSE IF m \in {4, 6, 9, 11} THEN 30 ELSE 31
IsValidDate(x) == x.m \in 1..12 /\ x.d >= 1 /\ x.d <= DaysInMonth(x.y, x.m)
\* a.isBefore(b), both at the start of their day
IsBefore(a, b) ==
    \/ a.y < b.y
    \/ a.y = b.y /\ a.m < b.m
    \/ a.y = b.y /\ a.m = b.m /\ a.d < b.d

\* moment's year setter, m.year(y): 29 February of a leap year moves to the last day
\* of February of year y
SetYear(x, y) ==
    IF IsLeapYear(x.y) /\ x.m = 2 /\ x.d = 29
    THEN [y |-> y, m |-> 2, d |-> DaysInMonth(y, 2)]
    ELSE [y |-> y, m |-> x.m, d |-> x.d]

\* m.add(1, "year"): the day is clamped to the length of the month
AddOneYear(x) == [y |-> x.y + 1, m |-> x.m, d |-> IF x.d <= DaysInMonth(x.y + 1, x.m) THEN x.d ELSE DaysInMonth(x.y + 1, x.m)]

\* the year JavaScript's Date gives a month-and-day string that names no year (the
\* "bogus fallback year" of the comment at line 117)
FallbackYear == 2001

\* The date strings drawn, by shape:
\*   "iso"      2025-08-20             (moment.ISO_8601, strict)
\*   "MDY"      August 20 2025         ("MMMM D YYYY")
\*   "MD"       August 20              ("MMMM D")
\*   "DMY"      20 August 2025         ("D MMMM YYYY")
\*   "DM"       20 August              ("D MMMM")
\*   "short"    Aug 20                 (no strict format; Date fallback of moment(dateStr))
\*   "shortY"   Aug 20 2025            (no strict format; Date fallback of moment(dateStr))
\*   "garbage"  someday                (nothing parses it)
\* lines 101-115: the parsed date, or Null
ParseDate(str, currentYear) ==
    LET explicit == [y |-> str.y, m |-> str.m, d |-> str.d]
        yearless == [y |-> currentYear, m |-> str.m, d |-> str.d]
        fallback == [y |-> FallbackYear, m |-> str.m, d |-> str.d]
    IN  IF str.shape = "iso" /\ IsValidDate(explicit) THEN explicit
        ELSE IF str.shape = "MDY" /\ IsValidDate(explicit) THEN explicit
        ELSE IF str.shape = "MD" /\ IsValidDate(yearless) THEN yearless
        ELSE IF str.shape = "DMY" /\ IsValidDate(explicit) THEN explicit
        ELSE IF str.shape = "DM" /\ IsValidDate(yearless) THEN yearless
        ELSE IF str.shape = "shortY" /\ IsValidDate(explicit) THEN explicit
        ELSE IF str.shape = "short" /\ IsValidDate(fallback) THEN fallback
        ELSE Null

\* line 119: the condition of the year inference
YearIsBogusAnyPastYear(parsedDate, currentYear) == parsedDate.y < currentYear
YearIsBogusFromTenYears(parsedDate, currentYear) == parsedDate.y <= currentYear - 10 \/ parsedDate.y < 1900
YearIsBogus(parsedDate, currentYear) == parsedDate.y < currentYear - 10 \/ parsedDate.y < 1900

\* lines 100-122: Null when the string does not parse, else the parsed date, the date
\* after the year substitution of line 120, and the date after the rollover of line 121
ResolveDate(str, now) ==
    LET currentYear == now.y
        parsedDate == ParseDate(str, currentYear)
    IN  IF parsedDate = Null THEN Null
        ELSE IF YearIsBogus(parsedDate, currentYear)
        THEN LET inferred == SetYear(parsedDate, currentYear)
             IN  [parsed |-> parsedDate, inferred |-> inferred,
                  resolved |-> IF IsBefore(inferred, now) THEN AddOneYear(inferred) ELSE inferred]
        ELSE [parsed |-> parsedDate, inferred |-> parsedDate, resolved |-> parsedDate]

\* Reference days and date strings drawn
Todays == { [y |-> 2025, m |-> 8, d |-> 20], [y |-> 2025, m |-> 12, d |-> 31],
            [y |-> 2024, m |-> 2, d |-> 29], [y |-> 2026, m |-> 1, d |-> 1] }
StrYears == {1899, 2001, 2012, 2013, 2014, 2015, 2016, 2024, 2025, 2026, 2030}
StrMonths == {1, 2, 8, 12}
StrDays == {1, 5, 20, 28, 29, 31}
YearShapes == {"iso", "MDY", "DMY", "shortY"}
YearlessShapes == {"MD", "DM", "short"}
\* strings with a year name a real calendar date; strings without a year name a day
\* that exists in every year
DateStrings ==
    { s \in [shape : YearShapes, y : StrYears, m : StrMonths, d : StrDays] : IsValidDate(s) }
    \cup { s \in [shape : YearlessShapes, y : {0}, m : StrMonths, d : StrDays] : s.d <= DaysInMonth(FallbackYear, s.m) }
    \cup { [shape |-> "garbage", y |-> 0, m |-> 0, d |-> 0] }

DateInit ==
    /\ RestIdle
    /\ NumIdle
    /\ WeatherIdle
    /\ BookingIdle
    /\ dpc = "input"
    /\ today \in Todays
    /\ dateStr \in DateStrings
    /\ dOut = Undefined

Resolve ==
    /\ dpc = "input"
    /\ dpc' = "resolved"
    /\ dOut' = ResolveDate(dateStr, today)
    /\ UNCHANGED <<today, dateStr>>
    /\ UNCHANGED <<nvars, wvars, bvars, xvars>>

DateNext == Resolve

DateSpec == DateInit /\ [][DateNext]_vars

\* the date a reader expects of a string without a year: this year, or next year
\* when this year's date is already past
ThisOrNextYear(str, now) ==
    IF IsBefore([y |-> now.y, m |-> str.m, d |-> str.d], now)
    THEN [y |-> now.y + 1, m |-> str.m, d |-> str.d]
    ELSE [y |-> now.y, m |-> str.m, d |-> str.d]

\* C5: a date string that names a month and a day but no year resolves to the
\* reference year, or to the year after it when that date is strictly before the
\* reference day
C5_YearlessRollover ==
    (dpc = "resolved" /\ dateStr.shape \in YearlessShapes) =>
        (dOut # Null /\ dOut.resolved = ThisOrNextYear(dateStr, today))

\* C6 as stated: every well-formed ISO date string resolves to exactly the year,
\* month and day it spells, however far in the past its year
C6_IsoExactAnyYear ==
    (dpc = "resolved" /\ dateStr.shape = "iso") =>
        (dOut # Null /\ dOut.resolved = [y |-> dateStr.y, m |-> dateStr.m, d |-> dateStr.d])

\* C6 as amended: a well-formed ISO date string whose year is at most 10 years before
\* the reference year, and not before 1900, resolves to exactly the year, month and
\* day it spells
C6_IsoExactRecentYear ==
    (dpc = "resolved" /\ dateStr.shape = "iso" /\ dateStr.y >= today.y - 10 /\ dateStr.y >= 1900) =>
        (dOut # Null /\ dOut.resolved = [y |-> dateStr.y, m |-> dateStr.m, d |-> dateStr.d])

\* an ISO date ten years before the reference year has been resolved to itself
C6_Witness ==
    /\ dpc = "resolved"
    /\ dateStr.shape = "iso"
    /\ dateStr.y = today.y - 10
    /\ dOut # Null
    /\ dOut.resolved.y = dateStr.y

\* C7 as stated: a parsed year more than 10 years before the reference year, or
\* before 1900, is replaced by the reference year, month and day being kept; any
\* other parsed year is left unchanged
C7_YearInference ==
    (dpc = "resolved" /\ dOut # Null) =>
        IF dOut.parsed.y < today.y - 10 \/ dOut.parsed.y < 1900
        THEN dOut.resolved = [y |-> today.y, m |-> dOut.parsed.m, d |-> dOut.parsed.d]
        ELSE dOut.resolved = dOut.parsed

\* C7 as amended: such a year is replaced by the reference year, month and day being
\* kept except that 29 February becomes 28 February in a year that is not a leap
\* year; the date so obtained is then moved one year on when it is before the
\* reference day; any other parsed year is left unchanged
C7_YearInferenceThenRollover ==
    (dpc = "resolved" /\ dOut # Null) =>
        IF dOut.parsed.y < today.y - 10 \/ dOut.parsed.y < 1900
        THEN LET leapDay == dOut.parsed.m = 2 /\ dOut.parsed.d = 29
                 sub == [y |-> today.y, m |-> dOut.parsed.m,
                         d |-> IF leapDay /\ ~IsLeapYear(today.y) THEN 28 ELSE dOut.parsed.d]
                 next == [y |-> today.y + 1, m |-> dOut.parsed.m,
                          d |-> IF leapDay /\ ~IsLeapYear(today.y + 1) THEN 28 ELSE sub.d]
             IN  /\ dOut.inferred = sub
                 /\ dOut.resolved = (IF IsBefore(sub, today) THEN next ELSE sub)
        ELSE dOut.resolved = dOut.parsed

\* a date of 2001 has been resolved to the reference year, and one to the year after
C7_Witness ==
    /\ dpc = "resolved"
    /\ dOut # Null
    /\ dOut.parsed.y = 2001
    /\ dOut.inferred.y = today.y
    /\ dOut.resolved.y = today.y + 1

-----------------------------------------------------------------------------
\* index.js: parseBookingDateTime, the time part and the composition (lines 78-146)

MorningWord == <<"m","o","r","n","i","n","g">>
AfternoonWord == <<"a","f","t","e","r","n","o","o","n">>
EveningWord == <<"e","v","e","n","i","n","g">>
NightWord == <<"n","i","g","h","t">>
\* the alternatives of /\b(morning|afternoon|evening|night)\b/i, in their order
HintWords == <<MorningWord, AfternoonWord, EveningWord, NightWord>>

\* the regular expression matches word w at position i of s, whatever the letter case
HintWordAt(s, i, w) ==
    /\ i + Len(w) - 1 <= Len(s)
    /\ ToLowerCase(SubSeq(s, i, i + Len(w) - 1)) = w
    /\ (i = 1 \/ ~IsWordChar(s[i - 1]))
    /\ (i + Len(w) > Len(s) \/ ~IsWordChar(s[i + Len(w)]))
\* the length of the match at position i, 0 when there is none
HintLenAt(s, i) ==
    IF \E k \in 1..4 : HintWordAt(s, i, HintWords[k])
    THEN Len(HintWords[CHOOSE k \in 1..4 : HintWordAt(s, i, HintWords[k]) /\ \A j \in 1..(k - 1) : ~HintWordAt(s, i, HintWords[j])])
    ELSE 0

\* a hint that is null
NoHint == <<>>
\* lines 82-83: hintMatch[0].toLowerCase() of the leftmost match, or null
HintOf(s) ==
    IF \E i \in 1..Len(s) : HintLenAt(s, i) > 0
    THEN LET i == CHOOSE k \in 1..Len(s) : HintLenAt(s, k) > 0 /\ \A j \in 1..(k - 1) : HintLenAt(s, j) = 0
         IN  ToLowerCase(SubSeq(s, i, i + HintLenAt(s, i) - 1))
    ELSE NoHint

\* s.replace(/\b(morning|afternoon|evening|night)\b/ig, ""), scanning from position i
RECURSIVE RemoveHintsFrom(_, _)
RemoveHintsFrom(s, i) ==
    IF i > Len(s) THEN <<>>
    ELSE IF HintLenAt(s, i) > 0 THEN RemoveHintsFrom(s, i + HintLenAt(s, i))
    ELSE <<s[i]>> \o RemoveHintsFrom(s, i + 1)
RemoveHints(s) == RemoveHintsFrom(s, 1)

\* s.replace(/\./g, "")
RECURSIVE RemoveDots(_)
RemoveDots(s) ==
    IF s = <<>> THEN <<>>
    ELSE IF Head(s) = "." THEN RemoveDots(Tail(s))
    ELSE <<Head(s)>> \o RemoveDots(Tail(s))

\* s.replace(/\s+/g, " ")
RECURSIVE CollapseSpaces(_)
CollapseSpaces(s) ==
    IF s = <<>> THEN <<>>
    ELSE IF IsSpace(Head(s)) THEN <<" ">> \o CollapseSpaces(TrimLeft(s))
    ELSE <<Head(s)>> \o CollapseSpaces(Tail(s))

\* /[0-9]/.test(s)
TestDigit(s) == \E i \in 1..Len(s) : IsDigit(s[i])

SixPM == <<"6",":","0","0"," ","P","M">>
TwoPM == <<"2",":","0","0"," ","P","M">>
NineAM == <<"9",":","0","0"," ","A","M">>

\* lines 86-95: timeNormalized
DefaultTimeAllEvening(hint) == SixPM
DefaultTime(hint) ==
    IF hint = EveningWord THEN SixPM
    ELSE IF hint = AfternoonWord THEN TwoPM
    ELSE IF hint = MorningWord THEN NineAM
    ELSE SixPM
TimeNormalized(timeStr0) ==
    LET stripped == Trim(RemoveHints(timeStr0))
        cleaned == Trim(CollapseSpaces(RemoveDots(stripped)))
    IN  IF ~TestDigit(cleaned) THEN DefaultTime(HintOf(timeStr0)) ELSE cleaned

\* line 98: timeFormats, in their order; each by its hour token (two digits wanted or
\* one or two, 12-hour or 24-hour), its minutes and its meridiem
TimeFormats == <<
    [name |-> "h:mm a", twoDigits |-> FALSE, twelve |-> TRUE, minutes |-> TRUE],
    [name |-> "hh:mm a", twoDigits |-> TRUE, twelve |-> TRUE, minutes |-> TRUE],
    [name |-> "H:mm", twoDigits |-> FALSE, twelve |-> FALSE, minutes |-> TRUE],
    [name |-> "HH:mm", twoDigits |-> TRUE, twelve |-> FALSE, minutes |-> TRUE],
    [name |-> "h a", twoDigits |-> FALSE, twelve |-> TRUE, minutes |-> FALSE] >>

\* the meridiem token a: "am", "pm", "a", "p" in any letter case (the dots of "p.m."
\* are gone by line 87)
MeridiemOf(s) ==
    LET l == ToLowerCase(s)
    IN  IF l \in {<<"a">>, <<"a","m">>} THEN "am"
        ELSE IF l \in {<<"p">>, <<"p","m">>} THEN "pm"
        ELSE "none"

\* moment.tz(date + " " + s, "YYYY-MM-DD " + tf, tz, true), the time of day: Null when
\* the string does not match the format exactly or names no time of day, else
\* [h, mi] in 24-hour form (h = 24 stands for 24:00, the start of the next day)
MatchTimeFormat(s, tf) ==
    LET k == DigitRun(s, 1)
        hourOk == IF tf.twoDigits THEN k = 2 ELSE k \in {1, 2}
        hour == DecimalValue(SubSeq(s, 1, k))
        afterHour == SubSeq(s, k + 1, Len(s))
        minOk == IF tf.minutes
                 THEN Len(afterHour) >= 3 /\ afterHour[1] = ":" /\ IsDigit(afterHour[2]) /\ IsDigit(afterHour[3])
                 ELSE TRUE
        minute == IF tf.minutes THEN DecimalValue(SubSeq(afterHour, 2, 3)) ELSE 0
        afterMin == IF tf.minutes THEN SubSeq(afterHour, 4, Len(afterHour)) ELSE afterHour
        meridiem == IF afterMin # <<>> /\ Head(afterMin) = " " THEN MeridiemOf(Tail(afterMin)) ELSE "none"
    IN  IF ~hourOk THEN Null
        ELSE IF ~minOk THEN Null
        ELSE IF tf.twelve
        THEN IF meridiem = "none" \/ hour < 1 \/ hour > 12 \/ minute > 59 THEN Null
             ELSE [h |-> (IF meridiem = "pm" THEN (IF hour < 12 THEN hour + 12 ELSE 12)
                           ELSE (IF hour = 12 THEN 0 ELSE hour)),
                   mi |-> minute]
        ELSE IF afterMin # <<>> \/ minute > 59 \/ hour > 24 \/ (hour = 24 /\ minute # 0) THEN Null
             ELSE [h |-> hour, mi |-> minute]

\* lines 125-131: the first format that matches, else the forgiving parse
RECURSIVE FirstTimeFormat(_, _)
FirstTimeFormat(s, i) ==
    IF i > Len(TimeFormats) THEN Null
    ELSE IF MatchTimeFormat(s, TimeFormats[i]) # Null THEN MatchTimeFormat(s, TimeFormats[i])
    ELSE FirstTimeFormat(s, i + 1)
ClockTime(s, lenient) ==
    IF FirstTimeFormat(s, 1) # Null THEN FirstTimeFormat(s, 1) ELSE lenient

\* Calendar arithmetic of moment: the days from 1970-01-01 to the date, and back
DaysFromCivil(y, m, d) ==
    LET yy == IF m <= 2 THEN y - 1 ELSE y
        era == yy \div 400
        yoe == yy - era * 400
        doy == (153 * (IF m > 2 THEN m - 3 ELSE m + 9) + 2) \div 5 + d - 1
        doe == yoe * 365 + yoe \div 4 - yoe \div 100 + doy
    IN  era * 146097 + doe - 719468
CivilFromDays(n) ==
    LET z == n + 719468
        era == z \div 146097
        doe == z - era * 146097
        yoe == (doe - doe \div 1460 + doe \div 36524 - doe \div 146096) \div 365
        doy == doe - (365 * yoe + yoe \div 4 - yoe \div 100)
        mp == (5 * doy + 2) \div 153
        mm == IF mp < 10 THEN mp + 3 ELSE mp - 9
    IN  [y |-> yoe + era * 400 + (IF mm <= 2 THEN 1 ELSE 0), m |-> mm, d |-> doy - (153 * mp + 2) \div 5 + 1]

\* the offset of Asia/Kolkata from UTC, in minutes (+05:30, the same all year)
KolkataOffset == 330

\* An instant is a number of minutes since 1970-01-01T00:00Z. A formatted moment is
\* the calendar fields it prints and the offset it prints them with
InstantOf(f) == DaysFromCivil(f.y, f.m, f.d) * 1440 + f.h * 60 + f.mi - f.offset
FormatUnshifted(instant, zone) ==
    LET c == CivilFromDays(instant \div 1440)
    IN  [y |-> c.y, m |-> c.m, d |-> c.d, h |-> (instant % 1440) \div 60, mi |-> instant % 60, offset |-> zone]
Format(instant, zone) ==
    LET t == instant + zone
        c == CivilFromDays(t \div 1440)
    IN  [y |-> c.y, m |-> c.m, d |-> c.d, h |-> (t % 1440) \div 60, mi |-> t % 60, offset |-> zone]

\* parseBookingDateTime(dateStr, timeStr, "Asia/Kolkata") from line 79 on, given the
\* date lines 100-122 resolve dateStr to
parseBookingDateTime(date, timeStr0, lenient) ==
    IF timeStr0 = <<>> THEN Null
    ELSE LET hint == HintOf(timeStr0)
             timeNormalized == TimeNormalized(timeStr0)
             clock == ClockTime(timeNormalized, lenient)
         IN  IF clock = Null THEN Null
             ELSE LET timeMoment == InstantOf([y |-> date.y, m |-> date.m, d |-> date.d,
                                               h |-> clock.h, mi |-> clock.mi, offset |-> KolkataOffset])
                  IN  [hint |-> hint, timeNormalized |-> timeNormalized, clock |-> clock,
                       utcDate |-> timeMoment,
                       localISO |-> Format(timeMoment, KolkataOffset),
                       parsedUTC |-> Format(timeMoment, 0)]

\* routes/bookings.js, lines 256-261: the stored bookingDate (parseBookingDate: the
\* start of the day in Asia/Kolkata), preview.bookingDate and bookingDateLocal
PreviewDates(date) ==
    LET bookingDate == InstantOf([y |-> date.y, m |-> date.m, d |-> date.d, h |-> 0, mi |-> 0, offset |-> KolkataOffset])
    IN  [stored |-> bookingDate,
         bookingDate |-> Format(bookingDate, 0),
         bookingDateLocal |-> Format(bookingDate, KolkataOffset)]

\* Time phrases drawn: the words they are built from, each with the day-part a reader
\* finds in it as a whole word ("none" when there is none) and whether it holds a digit
TimeWord(chars, part, dig) == [w |-> chars, part |-> part, digit |-> dig]
TimeWords == {
    TimeWord(<<"m","o","r","n","i","n","g">>, "morning", FALSE),
    TimeWord(<<"A","f","t","e","r","n","o","o","n">>, "afternoon", FALSE),
    TimeWord(<<"E","V","E","N","I","N","G">>, "evening", FALSE),
    TimeWord(<<"n","i","g","h","t">>, "night", FALSE),
    TimeWord(<<"m","i","d","-","m","o","r","n","i","n","g",",">>, "morning", FALSE),
    TimeWord(<<"t","o","n","i","g","h","t">>, "none", FALSE),
    TimeWord(<<"m","o","r","n","i","n","g","s">>, "none", FALSE),
    TimeWord(<<"n","o","o","n">>, "none", FALSE),
    TimeWord(<<".">>, "none", FALSE),
    TimeWord(<<"p",".","m",".">>, "none", FALSE),
    TimeWord(<<"P","M">>, "none", FALSE),
    TimeWord(<<"a","m">>, "none", FALSE),
    TimeWord(<<"6",":","0","0">>, "none", TRUE),
    TimeWord(<<"1","8",":","0","0">>, "none", TRUE),
    TimeWord(<<"0","9",":","3","0">>, "none", TRUE),
    TimeWord(<<"1","2">>, "none", TRUE),
    TimeWord(<<"7">>, "none", TRUE),
    TimeWord(<<"2","4",":","0","0">>, "none", TRUE),
    TimeWord(<<"2","5",":","9","9">>, "none", TRUE),
    TimeWord(<<"7","e","v","e","n","i","n","g">>, "none", TRUE) }
\* the longest time phrase drawn, in words
MaxTimeWords == 2
RECURSIVE JoinWords(_, _)
JoinWords(ws, i) ==
    IF i > Len(ws) THEN <<>>
    ELSE IF i = Len(ws) THEN ws[i].w
    ELSE ws[i].w \o <<" ">> \o JoinWords(ws, i + 1)
\* a phrase of no word is the empty string, or white space only
TimePhrases ==
    { [words |-> ws, text |-> JoinWords(ws, 1)] : ws \in UNION { [1..n -> TimeWords] : n \in 0..MaxTimeWords } }
    \cup { [words |-> <<>>, text |-> <<" ", " ">>] }

\* dates lines 100-122 resolve to
ResolvedDates == { [y |-> 2025, m |-> 8, d |-> 20], [y |-> 2024, m |-> 2, d |-> 29],
                   [y |-> 2025, m |-> 12, d |-> 31], [y |-> 2026, m |-> 1, d |-> 1],
                   [y |-> 2016, m |-> 3, d |-> 1] }
\* what the forgiving parse of line 131 can make of a string no format matches: the
\* moment is invalid, or some time of day
LenientOutcomes == { Null, [h |-> 7, mi |-> 0] }

TimeInit ==
    /\ NumIdle
    /\ WeatherIdle
    /\ DateIdle
    /\ BookingIdle
    /\ ForecastIdle
    /\ RecordRoutesIdle
    /\ tpc = "input"
    /\ timeStr \in TimePhrases
    /\ tDate \in ResolvedDates
    /\ tLenient \in LenientOutcomes
    /\ tOut = Undefined

Compose ==
    /\ tpc = "input"
    /\ tpc' = "composed"
    /\ tOut' = [parsed |-> parseBookingDateTime(tDate, timeStr.text, tLenient), preview |-> PreviewDates(tDate)]
    /\ UNCHANGED <<timeStr, tDate, tLenient>>
    /\ UNCHANGED <<nvars, wvars, dvars, bvars, fvars, cvars>>

TimeNext == Compose

TimeSpec == TimeInit /\ [][TimeNext]_vars

\* the day-part a reader takes from a phrase: that of its first word naming one
RECURSIVE FirstPart(_, _)
FirstPart(ws, i) ==
    IF i > Len(ws) THEN "none"
    ELSE IF ws[i].part # "none" THEN ws[i].part
    ELSE FirstPart(ws, i + 1)
\* the default hour of a day-part
PartHour(part) ==
    CASE part = "morning" -> 9
      [] part = "afternoon" -> 14
      [] part = "evening" -> 18
      [] part = "night" -> 18
      [] OTHER -> 18
NoDigitIn(ws) == \A i \in 1..Len(ws) : ~ws[i].digit
ResolvedTo(date, hour, minute) ==
    /\ tOut.parsed # Null
    /\ tOut.parsed.localISO = [y |-> date.y, m |-> date.m, d |-> date.d, h |-> hour, mi |-> minute, offset |-> 330]

\* C11 as stated: every time string with no digit resolves to the default of its
\* day-part (morning 09:00, afternoon 14:00, evening and night 18:00), and to 18:00
\* when it names no day-part, the empty string included
C11_HintDefaults ==
    (tpc = "composed" /\ NoDigitIn(timeStr.words)) =>
        ResolvedTo(tDate, PartHour(FirstPart(timeStr.words, 1)), 0)

\* C11 as amended: every time string that is not empty and holds no digit resolves
\* to the default of the first day-part it names as a whole word, in any letter case
\* (morning 09:00, afternoon 14:00, evening and night 18:00), and to 18:00 when it
\* names none; the empty string is not resolved
C11_HintDefaultsNonEmpty ==
    (tpc = "composed" /\ NoDigitIn(timeStr.words)) =>
        IF timeStr.text = <<>> THEN tOut.parsed = Null
        ELSE ResolvedTo(tDate, PartHour(FirstPart(timeStr.words, 1)), 0)

\* "Afternoon EVENING" has been resolved to 14:00, the default of its first day-part
C11_Witness ==
    /\ tpc = "composed"
    /\ Len(timeStr.words) = 2
    /\ timeStr.words[1].part = "afternoon"
    /\ timeStr.words[2].part = "evening"
    /\ tOut.parsed # Null
    /\ tOut.parsed.hint = AfternoonWord
    /\ tOut.parsed.localISO.h = 14

-----------------------------------------------------------------------------
\* services/weatherService.js: getWeatherForDate, the choice of the daily entry
\* (lines 9-25)

\* moment(x).startOf("day") in the server's local time, whose UTC offset is zone
StartOfDay(instant, zone) == ((instant + zone) \div 1440) * 1440 - zone
\* Math.abs
Abs(x) == IF x < 0 THEN -x ELSE x

\* lines 20-25: daily.reduce(...), as the index of the entry kept: best, then cur
\* when curDiff < bestDiff
RECURSIVE ReduceClosest(_, _, _, _, _)
ReduceClosest(daily, target, zone, best, i) ==
    IF i > Len(daily) THEN best
    ELSE IF best = 0 THEN ReduceClosest(daily, target, zone, i, i + 1)
    ELSE LET bestDiff == Abs(StartOfDay(daily[best], zone) - target)
             curDiff == Abs(StartOfDay(daily[i], zone) - target)
         IN  ReduceClosest(daily, target, zone, IF curDiff < bestDiff THEN i ELSE best, i + 1)

\* lines 9-25: the index in daily of closest, 0 when getWeatherForDate returns null at
\* line 17. dateStr is the bookingDate the router hands over, an instant
ClosestEntry(dateStr0, daily, zone) ==
    IF Len(daily) = 0 THEN 0
    ELSE ReduceClosest(daily, StartOfDay(dateStr0, zone), zone, 0, 1)

\* the bookingDate of the router for a calendar date: the start of that day in
\* Asia/Kolkata (parseBookingDate)
BookingInstant(date) == DaysFromCivil(date.y, date.m, date.d) * 1440 - KolkataOffset
\* the dt of the forecast entry of the day k days after the date: noon of that day in
\* Asia/Kolkata, as the API gives it for a place in India
EntryInstant(date, k) == (DaysFromCivil(date.y, date.m, date.d) + k) * 1440 + 720 - KolkataOffset

\* the offsets of the server's local time drawn: UTC, Asia/Kolkata, America/New_York
\* in winter, Asia/Tokyo
ServerZones == {0, 330, -300, 540}
BookingDates == { [y |-> 2025, m |-> 8, d |-> 20], [y |-> 2026, m |-> 1, d |-> 1] }
\* the longest forecast drawn, in entries, and the days before and after the booking
\* date its entries are for
MaxEntries == 3
EntryDays == -2..2
Forecasts == UNION { [1..n -> EntryDays] : n \in 0..MaxEntries }

ForecastInit ==
    /\ NumIdle
    /\ WeatherIdle
    /\ DateIdle
    /\ TimeIdle
    /\ BookingIdle
    /\ RecordRoutesIdle
    /\ fpc = "input"
    /\ fZone \in ServerZones
    /\ fBooking \in BookingDates
    /\ \E days \in Forecasts : fDaily = [i \in 1..Len(days) |-> [day |-> days[i], dt |-> EntryInstant(fBooking, days[i])]]
    /\ fChosen = Undefined

Choose ==
    /\ fpc = "input"
    /\ fpc' = "chosen"
    /\ fChosen' = ClosestEntry(BookingInstant(fBooking), [i \in 1..Len(fDaily) |-> fDaily[i].dt], fZone)
    /\ UNCHANGED <<fZone, fBooking, fDaily>>
    /\ UNCHANGED <<nvars, wvars, dvars, bvars, tvars, cvars>>

ForecastNext == Choose

ForecastSpec == ForecastInit /\ [][ForecastNext]_vars

\* the calendar date in Asia/Kolkata an instant falls on
KolkataDate(instant) == CivilFromDays((instant + KolkataOffset) \div 1440)

\* C15: getWeatherForDate returns null for an empty forecast; otherwise it uses the
\* entry whose day starts nearest to the start of the booking's day, the earliest
\* such entry on a tie, so that an entry for the booking's calendar date in
\* Asia/Kolkata, when the forecast has one, is the entry used
C15_ClosestEntryChosen ==
    fpc = "chosen" =>
        IF fDaily = <<>> THEN fChosen = 0
        ELSE /\ fChosen \in 1..Len(fDaily)
             /\ \A i \in 1..Len(fDaily) : Abs(fDaily[fChosen].day) <= Abs(fDaily[i].day)
             /\ \A i \in 1..(fChosen - 1) : Abs(fDaily[fChosen].day) < Abs(fDaily[i].day)
             /\ (\E i \in 1..Len(fDaily) : KolkataDate(fDaily[i].dt) = fBooking) =>
                    KolkataDate(fDaily[fChosen].dt) = fBooking

-----------------------------------------------------------------------------
\* routes/bookings.js: router.post("/"), the booking-creation handler

\* parseBookingDate: the date strings drawn are an ISO calendar date (read as the
\* start of that day in Asia/Kolkata), a string nothing parses, and no string at all
parseBookingDate(value) ==
    IF value.shape = "iso" /\ IsValidDate(value) THEN [y |-> value.y, m |-> value.m, d |-> value.d]
    ELSE Null

\* lines 186-199: the normalised fields. A request field holds the value of its
\* chain of aliases (raw.customerName || raw.name || "", and so on)
Normalise(request) ==
    [customerName |-> asString(request.customerName),
     numberOfGuests |-> numberOfGuests(request.numberOfGuests),
     bookingDate |-> parseBookingDate(request.bookingDate),
     bookingTime |-> asString(request.bookingTime)]

\* lines 204-207
previewIgnored(request) == FALSE
previewOnly(request) == request.preview
autoConfirm(request) == previewOnly(request) /\ request.autoConfirm

\* line 211
MissingFieldsIgnoresGuests(n) ==
    n.customerName = <<>> \/ n.bookingDate = Null \/ n.bookingTime = <<>>
MissingFields(n) ==
    n.customerName = <<>> \/ Falsy(n.numberOfGuests) \/ n.bookingDate = Null \/ n.bookingTime = <<>>

\* line 210
ValidatesRequired(request) == ~previewOnly(request) \/ autoConfirm(request)

\* lines 220-224: the weather service is consulted
UsesWeatherService(e, request) ==
    e.hasWeatherService /\ e.hasApiKey /\ request.bookingDate.shape # "absent"

\* getWeatherForDate as a whole, from the outcome of axios.get: the request failed
\* (caught, line 51), the forecast has no daily entry (line 17), or closest is chosen
getWeatherForDate(outcome) ==
    IF outcome.kind = "daily" THEN ServiceObservation(outcome.closest) ELSE Null

NoResponse == [status |-> 0, error |-> "none", weatherInfo |-> Null, seatingPreference |-> "none",
               numberOfGuests |-> NoNumber, saved |-> FALSE]

\* lines 253-294: the preview object, and the record saved unless the request is a
\* preview without autoConfirm. bookingId is the request's own identity (randomUUID)
Respond(r, request, n, compactWeather) ==
    IF previewOnly(request) /\ ~autoConfirm(request)
    THEN [status |-> 200, error |-> "none", weatherInfo |-> compactWeather,
          seatingPreference |-> seatingPreference(compactWeather),
          numberOfGuests |-> n.numberOfGuests, saved |-> FALSE]
    ELSE [status |-> 201, error |-> "none", weatherInfo |-> compactWeather,
          seatingPreference |-> seatingPreference(compactWeather),
          numberOfGuests |-> n.numberOfGuests, saved |-> TRUE]
SavedUnderOneId(r, request, n, compactWeather) ==
    IF previewOnly(request) /\ ~autoConfirm(request) THEN {}
    ELSE {[bookingId |-> "r1", customerName |-> n.customerName, numberOfGuests |-> n.numberOfGuests,
           bookingDate |-> n.bookingDate, bookingTime |-> n.bookingTime,
           weatherInfo |-> compactWeather, seatingPreference |-> seatingPreference(compactWeather),
           status |-> "confirmed"]}
Saved(r, request, n, compactWeather) ==
    IF previewOnly(request) /\ ~autoConfirm(request) THEN {}
    ELSE {[bookingId |-> r, customerName |-> n.customerName, numberOfGuests |-> n.numberOfGuests,
           bookingDate |-> n.bookingDate, bookingTime |-> n.bookingTime,
           weatherInfo |-> compactWeather, seatingPreference |-> seatingPreference(compactWeather),
           status |-> "confirmed"]}

\* the requests in flight together, and the requests drawn
Reqs == {"r1", "r2"}

NameAsha == <<"A","s","h","a">>
TimeSix == <<"1","8",":","0","0">>
TimeBad == <<"2","5",":","9","9">>
WordTwo == <<"t","w","o">>
WordPeople == <<"p","e","o","p","l","e">>
Blank == <<" ", " ">>

\* raw.customerName: absent, blank, given; raw.bookingTime: absent, "18:00", "25:99"
Names == {<<>>, Blank, NameAsha}
Times == {<<>>, TimeSix, TimeBad}
\* raw.numberOfGuests: absent, the numbers 4 and 0, the strings "two", "people", "x4";
\* recognized tells whether the string holds a word or numeral the decoder knows
GuestInputs == {
    [t |-> "string", n |-> 0, s |-> <<>>, recognized |-> FALSE],
    [t |-> "number", n |-> 4, s |-> <<>>, recognized |-> FALSE],
    [t |-> "number", n |-> 0, s |-> <<>>, recognized |-> FALSE],
    [t |-> "string", n |-> 0, s |-> WordTwo, recognized |-> TRUE],
    [t |-> "string", n |-> 0, s |-> WordPeople, recognized |-> FALSE],
    [t |-> "string", n |-> 0, s |-> <<"x", "4">>, recognized |-> FALSE] }
\* raw.bookingDate: absent, "2025-08-20", "someday"
DateInputs == {
    [shape |-> "absent", y |-> 0, m |-> 0, d |-> 0],
    [shape |-> "iso", y |-> 2025, m |-> 8, d |-> 20],
    [shape |-> "garbage", y |-> 0, m |-> 0, d |-> 0] }
\* a request with every required field given
FullRequest ==
    [customerName |-> NameAsha, numberOfGuests |-> [t |-> "number", n |-> 4, s |-> <<>>, recognized |-> FALSE],
     bookingDate |-> [shape |-> "iso", y |-> 2025, m |-> 8, d |-> 20], bookingTime |-> TimeSix]
Differences(a) ==
    Cardinality({f \in {"customerName", "numberOfGuests", "bookingDate", "bookingTime"} : a[f] # FullRequest[f]})
\* the bodies drawn differ from the full request in at most one field, or give no
\* field at all
Bodies ==
    { a \in [customerName : Names, numberOfGuests : GuestInputs, bookingDate : DateInputs, bookingTime : Times] :
        \/ Differences(a) <= 1
        \/ /\ a.customerName = <<>>
           /\ a.numberOfGuests = [t |-> "string", n |-> 0, s |-> <<>>, recognized |-> FALSE]
           /\ a.bookingDate.shape = "absent"
           /\ a.bookingTime = <<>> }
Requests ==
    { [customerName |-> a.customerName, numberOfGuests |-> a.numberOfGuests, bookingDate |-> a.bookingDate,
       bookingTime |-> a.bookingTime, preview |-> p, autoConfirm |-> c] : a \in Bodies, p \in BOOLEAN, c \in BOOLEAN }

\* what axios.get can come back with: a forecast whose closest daily entry is one of
\* these, a forecast with no daily entry, a failed request
ForecastEntries == {
    [main |-> <<"C","l","e","a","r">>, pop |-> 50],
    [main |-> <<"R","a","i","n">>, pop |-> 10],
    [main |-> <<"R","a","i","n">>, pop |-> 60],
    [main |-> <<"C","l","o","u","d","s">>, pop |-> 30],
    [main |-> <<>>, pop |-> 45] }
NoEntry == [main |-> <<>>, pop |-> 0]
AxiosOutcomes ==
    { [kind |-> "daily", closest |-> e] : e \in ForecastEntries }
    \cup { [kind |-> "empty", closest |-> NoEntry], [kind |-> "error", closest |-> NoEntry] }
NoFetch == [kind |-> "none", closest |-> NoEntry]
InFlight == [kind |-> "inflight", closest |-> NoEntry]

NoRequest ==
    [customerName |-> <<>>, numberOfGuests |-> [t |-> "string", n |-> 0, s |-> <<>>, recognized |-> FALSE],
     bookingDate |-> [shape |-> "absent", y |-> 0, m |-> 0, d |-> 0], bookingTime |-> <<>>,
     preview |-> FALSE, autoConfirm |-> FALSE]

Init ==
    /\ RestIdle
    /\ NumIdle
    /\ WeatherIdle
    /\ DateIdle
    /\ env \in [hasWeatherService : BOOLEAN, hasApiKey : BOOLEAN]
    /\ pc = [r \in Reqs |-> "idle"]
    /\ req = [r \in Reqs |-> NoRequest]
    /\ loc = [r \in Reqs |-> Normalise(NoRequest)]
    /\ fetch = [r \in Reqs |-> NoFetch]
    /\ resp = [r \in Reqs |-> NoResponse]
    /\ store = {}

\* The handler from the arrival of the request to its first suspension: the 400
\* response, the response with the default weather, or the call of the service
Receive(r) ==
    /\ pc[r] = "idle"
    /\ r = "r2" => pc["r1"] # "idle"
    /\ \E request \in Requests :
        LET n == Normalise(request)
        IN  /\ req' = [req EXCEPT ![r] = request]
            /\ loc' = [loc EXCEPT ![r] = n]
            /\ IF ValidatesRequired(request) /\ MissingFields(n)
               THEN /\ resp' = [resp EXCEPT ![r] = [NoResponse EXCEPT !.status = 400, !.error = "missing_fields"]]
                    /\ pc' = [pc EXCEPT ![r] = "done"]
                    /\ UNCHANGED <<fetch, store>>
               ELSE IF ~UsesWeatherService(env, request)
               THEN /\ resp' = [resp EXCEPT ![r] = Respond(r, request, n, defaultGoodWeather)]
                    /\ store' = store \cup Saved(r, request, n, defaultGoodWeather)
                    /\ pc' = [pc EXCEPT ![r] = "done"]
                    /\ UNCHANGED fetch
               ELSE /\ fetch' = [fetch EXCEPT ![r] = InFlight]
                    /\ pc' = [pc EXCEPT ![r] = "awaitWeather"]
                    /\ UNCHANGED <<resp, store>>
    /\ UNCHANGED env
    /\ UNCHANGED <<nvars, wvars, dvars, xvars>>

\* The weather API answers the call, or the call fails: the promise of axios.get
\* settles. Nothing makes it settle: the call sets no timeout
ApiSettles(r) ==
    /\ pc[r] = "awaitWeather"
    /\ fetch[r] = InFlight
    /\ \E outcome \in AxiosOutcomes : fetch' = [fetch EXCEPT ![r] = outcome]
    /\ UNCHANGED <<env, pc, req, loc, resp, store>>
    /\ UNCHANGED <<nvars, wvars, dvars, xvars>>

\* The handler resumes after `await weatherService.getWeatherForDate(...)` and runs
\* to its response
Resume(r) ==
    /\ pc[r] = "awaitWeather"
    /\ fetch[r] # InFlight
    /\ LET compactWeather == CompactWeather(getWeatherForDate(fetch[r]))
       IN  /\ resp' = [resp EXCEPT ![r] = Respond(r, req[r], loc[r], compactWeather)]
           /\ store' = store \cup Saved(r, req[r], loc[r], compactWeather)
    /\ pc' = [pc EXCEPT ![r] = "done"]
    /\ UNCHANGED <<env, req, loc, fetch>>
    /\ UNCHANGED <<nvars, wvars, dvars, xvars>>

Next == \E r \in Reqs : Receive(r) \/ ApiSettles(r) \/ Resume(r)

Spec == Init /\ [][Next]_vars

\* One request alone, under the one guarantee the runtime gives: the event loop runs
\* a continuation whose promise has settled. Nothing is assumed of the weather API
FairNext == Receive("r1") \/ ApiSettles("r1") \/ Resume("r1")
FairSpec == Init /\ [][FairNext]_vars /\ WF_vars(Resume("r1"))

-----------------------------------------------------------------------------
\* What a reader of the request sees, without running the handler

\* a required field is absent, or given with nothing in it
NameMissing(request) == request.customerName \in {<<>>, Blank}
GuestsMissing(request) ==
    \/ request.numberOfGuests.t = "number" /\ request.numberOfGuests.n = 0
    \/ request.numberOfGuests.t = "string" /\ request.numberOfGuests.s \in {<<>>, WordPeople}
DateMissing(request) == request.bookingDate.shape # "iso"
TimeMissing(request) == request.bookingTime = <<>>
AnyRequiredMissing(request) ==
    NameMissing(request) \/ GuestsMissing(request) \/ DateMissing(request) \/ TimeMissing(request)
\* the request asks for a record: it is no preview, or a preview with autoConfirm
AsksToSave(request) == ~request.preview \/ request.autoConfirm

RecordOf(r) == { b \in store : b.bookingId = r }
HasDigit(s) == \E i \in 1..Len(s) : IsDigit(s[i])

\* C1: a request that is no preview (or is a preview with autoConfirm) and lacks any
\* of customerName, numberOfGuests, bookingDate, bookingTime is answered 400
\* missing_fields, and no record of it is saved: the store keeps only complete records
C1_MissingFieldsRejected ==
    /\ \A r \in Reqs :
        (pc[r] # "idle" /\ AsksToSave(req[r]) /\ AnyRequiredMissing(req[r])) =>
            /\ pc[r] = "done"
            /\ resp[r].status = 400
            /\ resp[r].error = "missing_fields"
            /\ ~resp[r].saved
            /\ RecordOf(r) = {}
    /\ \A b \in store :
        /\ b.customerName # <<>>
        /\ ~Falsy(b.numberOfGuests)
        /\ b.bookingDate # Null
        /\ b.bookingTime # <<>>

\* a request without guests has been rejected while the other request's record stays
C1_Witness ==
    /\ pc["r2"] = "done"
    /\ ~req["r2"].preview
    /\ GuestsMissing(req["r2"]) /\ ~NameMissing(req["r2"]) /\ ~DateMissing(req["r2"]) /\ ~TimeMissing(req["r2"])
    /\ resp["r2"].error = "missing_fields"
    /\ RecordOf("r1") # {}
    /\ RecordOf("r2") = {}

\* no observation is available to the request that has been answered
NoObservation(r) ==
    \/ ~env.hasWeatherService
    \/ ~env.hasApiKey
    \/ req[r].bookingDate.shape = "absent"
    \/ fetch[r].kind \in {"empty", "error"}

\* C3: when no weather observation is available (module missing, key unset, no date
\* supplied, the service returned nothing), the handler answers with the default
\* decision, good and outdoor, marked note = "default"; a decision computed from an
\* observation never carries that mark. The same holds of the record saved
C3_DefaultDecisionMarked ==
    \A r \in Reqs :
        (pc[r] = "done" /\ resp[r].status # 400) =>
            /\ NoObservation(r) =>
                /\ resp[r].weatherInfo.category = "good"
                /\ resp[r].weatherInfo.note = "default"
                /\ resp[r].seatingPreference = "outdoor"
            /\ ~NoObservation(r) =>
                /\ fetch[r].kind = "daily"
                /\ resp[r].weatherInfo.note # "default"
            /\ \A b \in RecordOf(r) :
                /\ b.weatherInfo = resp[r].weatherInfo
                /\ b.seatingPreference = resp[r].seatingPreference

\* the weather call failed and the record was saved with the marked default
C3_Witness ==
    \E r \in Reqs :
        /\ pc[r] = "done"
        /\ fetch[r].kind = "error"
        /\ resp[r].status = 201
        /\ resp[r].weatherInfo.note = "default"
        /\ resp[r].seatingPreference = "outdoor"
        /\ RecordOf(r) # {}

\* C4: every request whose required fields are present and parseable is eventually
\* answered, with a seating recommendation, whatever the weather call does, also when
\* it never answers
C4_AlwaysAnswered ==
    (pc["r1"] = "awaitWeather") ~> (pc["r1"] = "done" /\ resp["r1"].seatingPreference \in {"outdoor", "indoor"})

UnparseableDate(request) == request.bookingDate.shape = "garbage"
UnparseableTime(request) ==
    /\ request.bookingTime # <<>>
    /\ FirstTimeFormat(TimeNormalized(request.bookingTime), 1) = Null

\* C13: a request that asks for a record and whose bookingDate or bookingTime is a
\* string that cannot be parsed is rejected with a reason code, and no record of it
\* is saved
C13_UnparseableRejected ==
    \A r \in Reqs :
        (pc[r] = "done" /\ AsksToSave(req[r]) /\ (UnparseableDate(req[r]) \/ UnparseableTime(req[r]))) =>
            /\ resp[r].status = 400
            /\ resp[r].error # "none"
            /\ RecordOf(r) = {}

\* What one request gets when it runs alone, from the environment, the request and
\* what the weather API answers it: the response, and the record saved
AloneWeather(e, request, outcome) ==
    IF UsesWeatherService(e, request) THEN CompactWeather(getWeatherForDate(outcome)) ELSE defaultGoodWeather
AloneResponse(r, e, request, outcome) ==
    IF ValidatesRequired(request) /\ MissingFields(Normalise(request))
    THEN [NoResponse EXCEPT !.status = 400, !.error = "missing_fields"]
    ELSE Respond(r, request, Normalise(request), AloneWeather(e, request, outcome))
AloneRecord(r, e, request, outcome) ==
    IF ValidatesRequired(request) /\ MissingFields(Normalise(request)) THEN {}
    ELSE Saved(r, request, Normalise(request), AloneWeather(e, request, outcome))
\* the step leaves request q as it was
Untouched(q) ==
    /\ req'[q] = req[q]
    /\ loc'[q] = loc[q]
    /\ fetch'[q] = fetch[q]
    /\ resp'[q] = resp[q]
    /\ { b \in store' : b.bookingId = q } = RecordOf(q)

\* C14: two requests in flight together do not interact. Every step of one request
\* leaves the other's fields, weather answer, response and record as they were, and
\* a request that has been answered got the response and saved the record it would
\* have got and saved alone
C14_RequestsIndependent ==
    /\ [](\A r \in Reqs : pc[r] = "done" =>
            /\ resp[r] = AloneResponse(r, env, req[r], fetch[r])
            /\ RecordOf(r) = AloneRecord(r, env, req[r], fetch[r]))
    /\ [][\A q \in Reqs : pc'[q] = pc[q] /\ fetch'[q] = fetch[q] => Untouched(q)]_vars

\* the second request was received, suspended, resumed and answered from its own
\* forecast while the first one was still suspended, its own forecast at hand
C14_Witness ==
    /\ pc["r1"] = "awaitWeather"
    /\ fetch["r1"].kind = "daily"
    /\ ServiceObservation(fetch["r1"].closest).suggestOutdoor
    /\ pc["r2"] = "done"
    /\ fetch["r2"].kind = "daily"
    /\ resp["r2"].seatingPreference = "indoor"
    /\ RecordOf("r2") # {}
    /\ RecordOf("r1") = {}

-----------------------------------------------------------------------------
\* routes/bookings.js: the routes on one record (lines 365-434) and the collection

\* bookingIds in use (randomUUID), and one that is never given to a record
BookingIds == {"b1", "b2"}
RequestIds == BookingIds \cup {"b9"}
\* body.status of PATCH /:id/status: "" stands for a body without status
Statuses == {"", "cancelled", "seated", "confirmed"}
\* the requests records are created from: 4 guests, "two" guests
CreateRequests ==
    { [FullRequest EXCEPT !.numberOfGuests = g] @@ [preview |-> FALSE, autoConfirm |-> FALSE] :
        g \in { [t |-> "number", n |-> 4, s |-> <<>>, recognized |-> FALSE],
                [t |-> "string", n |-> 0, s |-> WordTwo, recognized |-> TRUE] } }

\* Booking.findOne({ bookingId: id }): the record, or Null
FindOne(coll, id) ==
    IF \E b \in coll : b.bookingId = id THEN CHOOSE b \in coll : b.bookingId = id ELSE Null
\* Booking.findOneAndUpdate({ bookingId: id }, { $set: { status } }): the collection after
FindOneAndUpdateEvery(coll, id, status) == { [b EXCEPT !.status = status] : b \in coll }
FindOneAndUpdate(coll, id, status) ==
    { IF b.bookingId = id THEN [b EXCEPT !.status = status] ELSE b : b \in coll }
\* Booking.findOneAndDelete({ bookingId: id }): the collection after
FindOneAndDelete(coll, id) == { b \in coll : b.bookingId # id }

NoOperation == [op |-> "none", id |-> "none", arg |-> "", status |-> 0, error |-> "none", booking |-> Null]

RecordInit ==
    /\ NumIdle
    /\ WeatherIdle
    /\ DateIdle
    /\ TimeIdle
    /\ ForecastIdle
    /\ env = Undefined
    /\ pc = Undefined
    /\ req = Undefined
    /\ loc = Undefined
    /\ fetch = Undefined
    /\ resp = Undefined
    /\ store = {}
    /\ cLast = NoOperation

\* what the routes on one record leave alone
RestUnchanged ==
    /\ UNCHANGED <<env, pc, req, loc, fetch, resp>>
    /\ UNCHANGED <<nvars, wvars, dvars, tvars, fvars>>

\* POST / with a complete request that is no preview, the weather service not in
\* use: new Booking({ bookingId: randomUUID(), ... }).save() and the 201
Create(id) ==
    /\ RestUnchanged
    /\ FindOne(store, id) = Null
    /\ \E request \in CreateRequests :
        LET saved == Saved(id, request, Normalise(request), defaultGoodWeather)
        IN  /\ store' = store \cup saved
            /\ cLast' = [op |-> "create", id |-> id, arg |-> "", status |-> 201, error |-> "none",
                         booking |-> CHOOSE b \in saved : TRUE]

\* PATCH /:id/status
PatchStatus(id, status) ==
    /\ RestUnchanged
    /\ IF status = ""
       THEN /\ cLast' = [op |-> "status", id |-> id, arg |-> status, status |-> 400, error |-> "missing_status", booking |-> Null]
            /\ UNCHANGED store
       ELSE IF FindOne(store, id) = Null
       THEN /\ cLast' = [op |-> "status", id |-> id, arg |-> status, status |-> 404, error |-> "not_found", booking |-> Null]
            /\ UNCHANGED store
       ELSE /\ store' = FindOneAndUpdate(store, id, status)
            /\ cLast' = [op |-> "status", id |-> id, arg |-> status, status |-> 200, error |-> "none",
                         booking |-> FindOne(FindOneAndUpdate(store, id, status), id)]

\* PATCH /:id/cancel
Cancel(id) ==
    /\ RestUnchanged
    /\ IF FindOne(store, id) = Null
       THEN /\ cLast' = [op |-> "cancel", id |-> id, arg |-> "", status |-> 404, error |-> "not_found", booking |-> Null]
            /\ UNCHANGED store
       ELSE /\ store' = FindOneAndUpdate(store, id, "cancelled")
            /\ cLast' = [op |-> "cancel", id |-> id, arg |-> "", status |-> 200, error |-> "none",
                         booking |-> FindOne(FindOneAndUpdate(store, id, "cancelled"), id)]

\* GET /:id
GetOne(id) ==
    /\ RestUnchanged
    /\ IF FindOne(store, id) = Null
       THEN cLast' = [op |-> "get", id |-> id, arg |-> "", status |-> 404, error |-> "Not found", booking |-> Null]
       ELSE cLast' = [op |-> "get", id |-> id, arg |-> "", status |-> 200, error |-> "none", booking |-> FindOne(store, id)]
    /\ UNCHANGED store

\* DELETE /:id
Delete(id) ==
    /\ RestUnchanged
    /\ IF FindOne(store, id) = Null
       THEN /\ cLast' = [op |-> "delete", id |-> id, arg |-> "", status |-> 404, error |-> "Not found", booking |-> Null]
            /\ UNCHANGED store
       ELSE /\ store' = FindOneAndDelete(store, id)
            /\ cLast' = [op |-> "delete", id |-> id, arg |-> "", status |-> 200, error |-> "none", booking |-> Null]

RecordNext ==
    \/ \E id \in BookingIds : Create(id)
    \/ \E id \in RequestIds, status \in Statuses : PatchStatus(id, status)
    \/ \E id \in RequestIds : Cancel(id)
    \/ \E id \in RequestIds : GetOne(id)
    \/ \E id \in RequestIds : Delete(id)

RecordSpec == RecordInit /\ [][RecordNext]_vars

\* the record of id, and the records of the other ids
Held(coll, id) == { b \in coll : b.bookingId = id }
Others(coll, id) == { b \in coll : b.bookingId # id }
\* the record of id is the same but for its status, which is s
OnlyStatusSet(id, s) ==
    /\ Others(store', id) = Others(store, id)
    /\ \E old \in Held(store, id) : Held(store', id) = {[old EXCEPT !.status = s]}
\* what every step of a status-patch that carries a status, of a cancel and of a
\* delete does; and the lookup after a successful delete
RecordRoutesFrame ==
    LET id == cLast'.id
    IN  /\ (cLast'.op \in {"cancel", "delete"} /\ Held(store, id) = {}) =>
                (cLast'.status = 404 /\ store' = store)
        /\ (cLast'.op = "status" /\ cLast'.arg # "" /\ Held(store, id) = {}) =>
                (cLast'.status = 404 /\ cLast'.error = "not_found" /\ store' = store)
        /\ (cLast'.op = "status" /\ cLast'.arg # "" /\ Held(store, id) # {}) =>
                (cLast'.status = 200 /\ OnlyStatusSet(id, cLast'.arg))
        /\ (cLast'.op = "cancel" /\ Held(store, id) # {}) =>
                (cLast'.status = 200 /\ OnlyStatusSet(id, "cancelled"))
        /\ (cLast'.op = "cancel" /\ cLast.op = "cancel" /\ cLast.id = id /\ cLast.status = 200) =>
                (cLast' = cLast /\ store' = store)
        /\ (cLast'.op = "delete" /\ Held(store, id) # {}) =>
                (cLast'.status = 200 /\ Held(store', id) = {} /\ Others(store', id) = Others(store, id))
        /\ (cLast'.op = "get" /\ cLast.op = "delete" /\ cLast.id = id /\ cLast.status = 200) =>
                cLast'.status = 404

\* C18 as stated: every status-patch, cancel and delete addressed to a bookingId
\* with no record is answered not found and leaves the store as it was; on a record,
\* status-patch and cancel change its status and nothing else (cancel to "cancelled",
\* a second cancel changing nothing); a lookup after a delete finds nothing
C18_RecordRoutes ==
    [][ /\ RecordRoutesFrame
        /\ (cLast'.op = "status" /\ Held(store, cLast'.id) = {}) => cLast'.status = 404 ]_vars

\* C18 as amended: the same, of the status-patches that carry a status; a
\* status-patch without one is answered 400 missing_status, whether or not the
\* record exists, and leaves the store as it was
C18_RecordRoutesWithStatus ==
    [][ /\ RecordRoutesFrame
        /\ (cLast'.op = "status" /\ cLast'.arg = "") =>
                (cLast'.status = 400 /\ cLast'.error = "missing_status" /\ store' = store) ]_vars

\* with two records stored, one has been cancelled and the other deleted: the
\* cancelled one is all that is left, with its guests as created
C18_Witness ==
    /\ cLast.op = "delete"
    /\ cLast.status = 200
    /\ cLast.id = "b2"
    /\ Held(store, "b2") = {}
    /\ \E b \in store : b.bookingId = "b1" /\ b.status = "cancelled" /\ b.numberOfGuests = Num(2)

=============================================================================
